---- MODULE Spec2Model ----
(***************************************************************************)
(* Model of the FinoAddWise backend: the three AI endpoints                *)
(* (/generate-strategy, /assess-risk, /analyze-document), the services     *)
(* behind them (FinancialAgentService, RAGService) and the helpers they    *)
(* call (DataValidator, the pydantic response models); the request        *)
(* surface around them (request models, /quick-strategy, the table of      *)
(* registered routes); and the document store (RAGService.store_document   *)
(* over the Pinecone index).                                               *)
(*                                                                         *)
(* Numbers.  Python floats are modelled as exact rationals [n, d] in       *)
(* lowest terms; the rounding error of IEEE doubles (about 1e-14 on the    *)
(* magnitudes used here) is not modelled.  A JSON value that is a number   *)
(* is Q(n, d); a key that is missing is Absent; a value on which Python    *)
(* arithmetic and comparison raise TypeError (a string, null, a list) is   *)
(* NonNum.                                                                 *)
(***************************************************************************)
EXTENDS Integers, Sequences, FiniteSets, TLC

VARIABLES
    pc,          \* position of the request being served
    endpoint,    \* route of the request being served
    request,     \* body of the request being served
    completion,  \* what the completion call (LLMChain.run) did
    svcResult,   \* value returned by the service operation
    reply,       \* HTTP response of the route
    log,         \* logger records written while serving the request
    llmCalls,    \* completion calls made while serving the request
    vecCalls,    \* vector similarity queries made while serving the request
    context,     \* context retrieved for the compliance prompt
    index,       \* vectors held by the Pinecone index
    stored       \* the store_document calls made so far, oldest first

vars == <<pc, endpoint, request, completion, svcResult, reply, log, llmCalls, vecCalls,
          context, index, stored>>

----------------------------------------------------------------------------
(* Rational arithmetic *)

Abs(x) == IF x < 0 THEN -x ELSE x

RECURSIVE GCD(_, _)
GCD(a, b) == IF b = 0 THEN a ELSE GCD(b, a % b)

\* the number n/d (d > 0) in lowest terms
Q(n, d) ==
    LET g == GCD(Abs(n), d)
    IN  [t |-> "num", n |-> n \div g, d |-> d \div g]

I(n) == Q(n, 1)

Absent == [t |-> "absent", n |-> 0, d |-> 1]
NonNum == [t |-> "nonnum", n |-> 0, d |-> 1]

IsNum(v) == v.t = "num"

QAdd(a, b) == Q(a.n * b.d + b.n * a.d, a.d * b.d)
QSub(a, b) == Q(a.n * b.d - b.n * a.d, a.d * b.d)
QMul(a, b) == Q(a.n * b.n, a.d * b.d)
\* a / b for b > 0
QDiv(a, b) == Q(a.n * b.d, a.d * b.n)
QLt(a, b) == a.n * b.d < b.n * a.d
QLe(a, b) == a.n * b.d <= b.n * a.d
QAbs(a) == Q(Abs(a.n), a.d)
QMin(a, b) == IF QLt(b, a) THEN b ELSE a
QMax(a, b) == IF QLt(a, b) THEN b ELSE a

\* mutant: only None is falsy
TruthyUnlessNone(v) == IsNum(v)

\* Python's truthiness of a number-or-None field: None and 0 are falsy
Truthy(v) == IsNum(v) /\ v.n # 0

Max(a, b) == IF a > b THEN a ELSE b
Min(a, b) == IF a < b THEN a ELSE b

\* mutant: truncation to one decimal instead of rounding
RoundDown1(x) == Q((x.n * 10) \div x.d, 10)

\* mutant: rounding up to the next decimal
RoundUp1(x) ==
    Q(IF (x.n * 10) % x.d = 0 THEN (x.n * 10) \div x.d ELSE (x.n * 10) \div x.d + 1, 10)

\* round(x, 1): to one decimal, ties to even
Round1(x) ==
    LET n10 == x.n * 10
        fl  == n10 \div x.d
        r2  == 2 * (n10 % x.d)
        up  == r2 > x.d \/ (r2 = x.d /\ fl % 2 = 1)
    IN  Q(IF up THEN fl + 1 ELSE fl, 10)

----------------------------------------------------------------------------
(* Data: profiles and strategies *)

RiskLevels == {"conservative", "moderate", "aggressive"}

\* keys of FinancialStrategy.dict()
StrategyFields ==
    {"strategy_summary", "investment_recommendations", "monthly_savings_target",
     "emergency_fund_target", "key_actions", "risk_warnings", "review_timeline"}

\* the mandatory fields of FinancialStrategy (risk_warnings has a default)
MandatoryStrategyFields == StrategyFields \ {"risk_warnings"}

(* A strategy mapping, as parsed from the completion or built by the       *)
(* fallback:                                                               *)
(*   kind      "object", or "list" / "number" for a JSON value that is not *)
(*             an object;                                                  *)
(*   recsKind  "absent" (no investment_recommendations key), "list", or    *)
(*             "other" (a non-empty value that is not a list of objects);  *)
(*   textOk    every non-numeric mandatory field (strategy_summary,        *)
(*             key_actions, review_timeline, and asset_class, rationale,   *)
(*             risk_level of every recommendation) is present and valid;   *)
(*   other_keys  keys of the mapping beyond the seven schema fields.       *)
Rec(asset, alloc, level) ==
    [asset_class |-> asset, allocation_percentage |-> alloc, risk_level |-> level]

Strategy(kind, recsKind, recs, mst, eft, textOk) ==
    [kind |-> kind, recsKind |-> recsKind, investment_recommendations |-> recs,
     monthly_savings_target |-> mst, emergency_fund_target |-> eft,
     textOk |-> textOk, other_keys |-> {}]

RECURSIVE SumAlloc(_)
\* sum(rec.get("allocation_percentage", 0) for rec in recs)
SumAlloc(recs) ==
    IF recs = <<>> THEN I(0)
    ELSE LET a == Head(recs).allocation_percentage
         IN  QAdd(IF a = Absent THEN I(0) ELSE a, SumAlloc(Tail(recs)))

\* the sum raises TypeError on a value that is not a number
SumRaises(recs) == \E i \in 1..Len(recs) : recs[i].allocation_percentage = NonNum

\* index of the first recommendation without an allocation_percentage key, or 0
FirstAbsent(recs) ==
    LET missing == {i \in 1..Len(recs) : recs[i].allocation_percentage = Absent}
    IN  IF missing = {} THEN 0 ELSE CHOOSE i \in missing : \A j \in missing : i <= j

Tolerance == 1
MinEmergencyMonths == 3
MaxEmergencyMonths == 12

\* mutant: no tolerance, every total other than 100 is adjusted
OffTargetExact(total) == total # I(100)

\* abs(total - 100.0) > 1.0
OffTarget(total) == QLt(I(Tolerance), QAbs(QSub(total, I(100))))

\* mutant: the factor inverted
ScaleFactorInverted(total) == IF total.n > 0 THEN QDiv(total, I(100)) ELSE I(1)

\* mutant: a total that is not positive scales by 100
ScaleFactorHundred(total) == IF total.n > 0 THEN QDiv(I(100), total) ELSE I(100)

\* line 280: 100.0 / total_allocation if total_allocation > 0 else 1.0
ScaleFactor(total) == IF total.n > 0 THEN QDiv(I(100), total) ELSE I(1)

\* lines 284-295: the emergency fund clamp, entered with strategy s and log lg
ClampEmergencyFund(s, user_profile, lg) ==
    LET E   == user_profile.monthly_expenses
        lo  == QMul(E, I(MinEmergencyMonths))
        hi  == QMul(E, I(MaxEmergencyMonths))
        cur == IF s.emergency_fund_target = Absent THEN I(0)
               ELSE s.emergency_fund_target
    IN  IF ~Truthy(E) THEN [strategy |-> s, log |-> lg]
        ELSE IF cur = NonNum
             THEN [strategy |-> s, log |-> lg \cup {"validation_error"}]
        ELSE IF QLt(cur, lo)
             THEN [strategy |-> [s EXCEPT !.emergency_fund_target = lo], log |-> lg]
        ELSE IF QLt(hi, cur)
             THEN [strategy |-> [s EXCEPT !.emergency_fund_target = hi], log |-> lg]
        ELSE [strategy |-> s, log |-> lg]

(* _validate_strategy: returns the strategy; what it logs is returned       *)
(* beside it.  The recommendations are scaled in place one after the other, *)
(* so a KeyError at recommendation k leaves those before k scaled; every    *)
(* exception ends the function with the strategy as it is at that point.    *)
validate_strategy(strategy, user_profile) ==
    LET recs   == strategy.investment_recommendations
        total  == SumAlloc(recs)
        off    == OffTarget(total)
        factor == ScaleFactor(total)
        k      == FirstAbsent(recs)
        scaled == [i \in 1..Len(recs) |->
                     IF off /\ (k = 0 \/ i < k)
                     THEN [recs[i] EXCEPT !.allocation_percentage = QMul(@, factor)]
                     ELSE recs[i]]
        s1     == [strategy EXCEPT !.investment_recommendations = scaled]
        warn   == IF off THEN {"allocation_warning"} ELSE {}
    IN  CASE strategy.kind = "number" ->
               [strategy |-> strategy, log |-> {"validation_error"}]
          [] strategy.kind = "list" ->
               [strategy |-> strategy,
                log |-> IF Truthy(user_profile.monthly_expenses)
                        THEN {"validation_error"} ELSE {}]
          [] strategy.kind = "object" /\ strategy.recsKind = "absent" ->
               ClampEmergencyFund(strategy, user_profile, {})
          [] strategy.kind = "object" /\ strategy.recsKind = "other" ->
               [strategy |-> strategy, log |-> {"validation_error"}]
          [] strategy.kind = "object" /\ strategy.recsKind = "list" ->
               IF SumRaises(recs)
               THEN [strategy |-> strategy, log |-> {"validation_error"}]
               ELSE IF off /\ k # 0
               THEN [strategy |-> s1, log |-> warn \cup {"validation_error"}]
               ELSE ClampEmergencyFund(s1, user_profile, warn)

FallbackExpenses == 3000
EmergencyMonths == 6

\* mutant: the stock share grows with the time horizon
generate_fallback_strategy_by_horizon(user_profile) ==
    LET age   == user_profile.age
        level == user_profile.risk_tolerance
        stock == Min(90, 100 - age + user_profile.time_horizon)
        bond  == Max(10, age - user_profile.time_horizon)
        total == stock + bond
        E     == IF Truthy(user_profile.monthly_expenses)
                 THEN user_profile.monthly_expenses ELSE I(FallbackExpenses)
    IN  Strategy("object", "list",
                 << Rec("Stocks", Round1(QMul(Q(stock, total), I(100))), level),
                    Rec("Bonds", Round1(QMul(Q(bond, total), I(100))), "conservative") >>,
                 QMul(user_profile.annual_income, Q(15, 1200)),
                 QMul(E, I(EmergencyMonths)),
                 TRUE)

\* _generate_fallback_strategy
generate_fallback_strategy(user_profile) ==
    LET age   == user_profile.age
        level == user_profile.risk_tolerance
        stock == CASE level = "conservative" -> Max(30, 100 - age)
                   [] level = "aggressive"   -> Min(90, 120 - age)
                   [] OTHER                  -> Max(40, 110 - age)
        bond  == CASE level = "conservative" -> Min(70, age + 20)
                   [] level = "aggressive"   -> Max(10, age - 20)
                   [] OTHER                  -> Min(60, age + 10)
        total == stock + bond
        E     == IF Truthy(user_profile.monthly_expenses)
                 THEN user_profile.monthly_expenses ELSE I(FallbackExpenses)
    IN  Strategy("object", "list",
                 << Rec("Stocks", Round1(QMul(Q(stock, total), I(100))), level),
                    Rec("Bonds", Round1(QMul(Q(bond, total), I(100))), "conservative") >>,
                 QMul(user_profile.annual_income, Q(15, 1200)),
                 QMul(E, I(EmergencyMonths)),
                 TRUE)

\* mutant: a strategy synthesized by the fallback is marked as such
agent_generate_financial_strategy_flagged(user_profile, result) ==
    CASE result.kind = "raise" ->
           [strategy |-> [generate_fallback_strategy(user_profile)
                            EXCEPT !.other_keys = {"from_fallback"}],
            log |-> {"service_error"}]
      [] result.kind = "text" ->
           [strategy |-> [generate_fallback_strategy(user_profile)
                            EXCEPT !.other_keys = {"from_fallback"}],
            log |-> {"json_fallback"}]
      [] result.kind = "json" ->
           LET v == validate_strategy(result.value, user_profile)
           IN  [strategy |-> v.strategy, log |-> v.log \cup {"strategy_generated"}]

(* FinancialAgentService.generate_financial_strategy, given what the       *)
(* completion call did: kind "raise" (the call failed), "text" (it         *)
(* returned text json.loads rejects, the empty string included) or "json"  *)
(* (it returned JSON text; value is the parsed value).                     *)
agent_generate_financial_strategy(user_profile, result) ==
    CASE result.kind = "raise" ->
           [strategy |-> generate_fallback_strategy(user_profile),
            log |-> {"service_error"}]
      [] result.kind = "text" ->
           [strategy |-> generate_fallback_strategy(user_profile),
            log |-> {"json_fallback"}]
      [] result.kind = "json" ->
           LET v == validate_strategy(result.value, user_profile)
           IN  [strategy |-> v.strategy, log |-> v.log \cup {"strategy_generated"}]

MinAge == 18
MaxAge == 100

\* DataValidator.validate_user_profile: the fields with an error
validate_user_profile(profile_data) ==
    (IF profile_data.age = 0 \/ profile_data.age < 18 \/ profile_data.age > 100
     THEN {"age"} ELSE {})
    \cup (IF ~Truthy(profile_data.annual_income) \/ profile_data.annual_income.n < 0
          THEN {"annual_income"} ELSE {})
    \cup (IF profile_data.risk_tolerance \notin RiskLevels
          THEN {"risk_tolerance"} ELSE {})
    \cup (IF profile_data.time_horizon = 0 \/ profile_data.time_horizon < 1
          THEN {"time_horizon"} ELSE {})
    \cup (IF Len(profile_data.financial_goals) = 0
          THEN {"financial_goals"} ELSE {})

\* UserProfile(...) constructs without a ValidationError (schemas.py): age in
\* 18..100, annual_income >= 0, risk_tolerance a RiskLevel, time_horizon >= 1;
\* financial_goals is any list of strings, current_assets and monthly_expenses
\* are any number or None.  investment_experience is always a string here.
UserProfileAccepts(p) ==
    /\ p.age >= MinAge /\ p.age <= MaxAge
    /\ IsNum(p.annual_income) /\ p.annual_income.n >= 0
    /\ p.risk_tolerance \in RiskLevels
    /\ p.time_horizon >= 1
    /\ p.current_assets # NonNum
    /\ p.monthly_expenses # NonNum

\* DataValidator.validate_allocation_percentages
validate_allocation_percentages(recommendations) ==
    IF SumRaises(recommendations) THEN FALSE
    ELSE ~OffTarget(SumAlloc(recommendations))

\* FinancialStrategy(**strategy_result) constructs without a ValidationError
FinancialStrategyAccepts(s) ==
    /\ s.kind = "object"
    /\ s.recsKind = "list"
    /\ s.textOk
    /\ \A i \in 1..Len(s.investment_recommendations) :
         LET a == s.investment_recommendations[i].allocation_percentage
         IN  IsNum(a) /\ QLe(I(0), a) /\ QLe(a, I(100))
    /\ IsNum(s.monthly_savings_target)
    /\ IsNum(s.emergency_fund_target)

NoData == [keys |-> {}]

Http(status) == [status |-> status, success |-> FALSE, data |-> NoData]

\* strategies.generate_financial_strategy from line 45 on, given the service result
strategy_response(s) ==
    IF s.kind = "number" THEN [response |-> Http(500), log |-> {"router_error"}]
    ELSE
    LET warn == IF s.kind = "object" /\ s.recsKind # "absent"
                   /\ (s.recsKind = "other"
                       \/ ~validate_allocation_percentages(s.investment_recommendations))
                THEN {"router_allocation_warning"} ELSE {}
    IN  IF FinancialStrategyAccepts(s)
        THEN [response |-> [status |-> 200, success |-> TRUE,
                            data |-> [keys |-> StrategyFields, value |-> s]],
              log |-> warn]
        ELSE [response |-> Http(500), log |-> warn \cup {"router_error"}]

----------------------------------------------------------------------------
(* Risk assessment *)

(* A risk assessment mapping: kind as for a strategy; risk_level is the    *)
(* string given, or "absent"; factorsOk / textOk say that risk_factors is  *)
(* a list of objects (or absent) and that the other non-numeric fields     *)
(* that are present are valid; risk_factors holds the impact_score of      *)
(* each factor, with its name and severity.                                *)
Factor(name, severity, impact) ==
    [factor_name |-> name, severity |-> severity, impact_score |-> impact]

Risk(kind, score, level, factors, confidence, textOk) ==
    [kind |-> kind, overall_risk_score |-> score, risk_level |-> level,
     risk_factors |-> factors, confidence_score |-> confidence, textOk |-> textOk]

\* mutant: a fallback assessment with another confidence
generate_fallback_risk_half_confidence ==
    Risk("object", Q(1, 2), "moderate",
         << Factor("Market Volatility", "medium", Q(3, 5)) >>, Q(1, 2), TRUE)

\* _generate_fallback_risk_assessment
generate_fallback_risk_assessment ==
    Risk("object", Q(1, 2), "moderate",
         << Factor("Market Volatility", "medium", Q(3, 5)) >>, Q(7, 10), TRUE)

\* mutant: text that is not JSON has its confidence taken over (0.8)
agent_assess_financial_risk_extracting(result) ==
    CASE result.kind = "raise" ->
           [assessment |-> generate_fallback_risk_assessment, log |-> {"service_error"}]
      [] result.kind = "text" ->
           [assessment |-> IF result.tokens = <<>> THEN generate_fallback_risk_assessment
                           ELSE [generate_fallback_risk_assessment
                                   EXCEPT !.confidence_score = Q(4, 5)],
            log |-> {"json_fallback"}]
      [] result.kind = "json" ->
           [assessment |-> result.value, log |-> {"risk_assessed"}]

\* FinancialAgentService.assess_financial_risk, given what the completion call did
agent_assess_financial_risk(result) ==
    CASE result.kind = "raise" ->
           [assessment |-> generate_fallback_risk_assessment, log |-> {"service_error"}]
      [] result.kind = "text" ->
           [assessment |-> generate_fallback_risk_assessment, log |-> {"json_fallback"}]
      [] result.kind = "json" ->
           [assessment |-> result.value, log |-> {"risk_assessed"}]

\* dict.get(key, default) on a numeric field
GetOr(v, default) == IF v = Absent THEN default ELSE v

\* Field(..., ge=0, le=1) accepts the value
UnitInterval(v) == IsNum(v) /\ QLe(I(0), v) /\ QLe(v, I(1))

\* risk_assessment.assess_financial_risk from line 36 on, given the service result
risk_response(r) ==
    LET factors == [i \in 1..Len(r.risk_factors) |->
                      [r.risk_factors[i] EXCEPT
                         !.impact_score = GetOr(@, Q(1, 2))]]
        level   == IF r.risk_level = "absent" THEN "moderate" ELSE r.risk_level
        score   == GetOr(r.overall_risk_score, Q(1, 2))
        conf    == GetOr(r.confidence_score, Q(7, 10))
        ok      == /\ r.kind = "object"
                   /\ r.textOk
                   /\ \A i \in 1..Len(factors) : UnitInterval(factors[i].impact_score)
                   /\ UnitInterval(score)
                   /\ level \in RiskLevels
                   /\ UnitInterval(conf)
    IN  IF ok
        THEN [status |-> 200, success |-> TRUE,
              data |-> [keys |-> {"overall_risk_score", "risk_level", "risk_factors",
                                  "recommendations", "confidence_score"},
                        value |-> Risk("object", score, level, factors, conf, TRUE)]]
        ELSE Http(500)

----------------------------------------------------------------------------
(* Compliance analysis *)

ComplianceStatuses == {"compliant", "non_compliant", "needs_review"}

(* A compliance mapping: compliance_status is the string given, or         *)
(* "absent"; lists is "ok" (the three list fields are lists of strings),   *)
(* "absent" (none of the three keys is there) or "bad" (one of them is not *)
(* a list of strings).                                                     *)
Compliance(kind, status, confidence, lists, flagged, recs, risks) ==
    [kind |-> kind, compliance_status |-> status, confidence_score |-> confidence,
     lists |-> lists, flagged_clauses |-> flagged, recommendations |-> recs,
     risk_factors |-> risks]

(* The completion text on the pattern path is a sequence of tokens:        *)
(*   kw      an occurrence of a field name (w);                            *)
(*   quoted  a quoted string with content w: wordlike when w is made of    *)
(*           word characters only (it can be the status token),            *)
(*           dq when the quotes are double quotes, has = the keywords      *)
(*           (clause, recommend, risk) w contains in any letter case;      *)
(*   num     a decimal literal of value v, sign included;                  *)
(*   nl      a line break;                                                 *)
(*   word    other text outside quoted strings, with the blanks around it  *)
(*           (w), has = the keywords it contains.                          *)
(* Tokens are separated by blanks, digits occur in num tokens only, and a  *)
(* double quote character occurs only as the delimiter of a dq token.  A   *)
(* string taken from the text is the sequence of the w of its tokens.      *)
Token(k, w, v, wordlike, dq, has) ==
    [k |-> k, w |-> w, v |-> v, wordlike |-> wordlike, dq |-> dq, has |-> has]

KwToken(w) == Token("kw", w, Absent, FALSE, FALSE, {})
QuotedToken(w, wordlike, dq, has) == Token("quoted", w, Absent, wordlike, dq, has)
NumToken(v) == Token("num", "", v, FALSE, FALSE, {})
NlToken == Token("nl", "", Absent, FALSE, FALSE, {})
WordToken(w, has) == Token("word", w, Absent, FALSE, FALSE, has)

\* '.' does not match a line break: no nl token strictly between i and j
SameLine(text, i, j) == \A m \in (i + 1)..(j - 1) : text[m].k # "nl"

MinOf(S) == CHOOSE i \in S : \A j \in S : i <= j

IsStatusToken(t) == t.k = "quoted" /\ t.wordlike
IsNumberToken(t) == t.k = "num"

IsCandidate(field, t) ==
    IF field = "compliance_status" THEN IsStatusToken(t) ELSE IsNumberToken(t)

\* re.search of a field name followed lazily by its candidate: the first candidate
\* after the leftmost field occurrence that has one on its line; 0 on no match
SearchAfter(text, field) ==
    LET hits(i) == {j \in (i + 1)..Len(text) :
                      IsCandidate(field, text[j]) /\ SameLine(text, i, j)}
        starts  == {i \in 1..Len(text) :
                      text[i].k = "kw" /\ text[i].w = field /\ hits(i) # {}}
    IN  IF starts = {} THEN 0 ELSE MinOf(hits(MinOf(starts)))

MaxList == 5

Take(seq, n) == SubSeq(seq, 1, Min(n, Len(seq)))

\* positions of the tokens delimited by double quote characters
DqTokens(text) == {j \in 1..Len(text) : text[j].k = "quoted" /\ text[j].dq}

\* position of the n-th such token
NthDq(text, n) ==
    CHOOSE j \in DqTokens(text) : Cardinality({x \in DqTokens(text) : x <= j}) = n

(* The text between the i-th double quote character and the next one, as   *)
(* token positions: for i = 2n - 1 the n-th dq token, for i = 2n the       *)
(* tokens between the n-th and the (n+1)-th dq token.                      *)
Between(text, i) ==
    IF i % 2 = 1 THEN {NthDq(text, (i + 1) \div 2)}
    ELSE (NthDq(text, i \div 2) + 1)..(NthDq(text, i \div 2 + 1) - 1)

\* the string at those positions
StringAt(text, S) ==
    IF S = {} THEN <<>>
    ELSE [k \in 1..Cardinality(S) |-> text[MinOf(S) + k - 1].w]

RECURSIVE FindAllFrom(_, _, _)
(* The list pattern tried at the i-th double quote character: it matches   *)
(* when another double quote follows and the text up to it contains the    *)
(* keyword; the search goes on behind the match, else at the next quote.   *)
FindAllFrom(text, keyword, i) ==
    IF i + 1 > 2 * Cardinality(DqTokens(text)) THEN <<>>
    ELSE IF \E j \in Between(text, i) : keyword \in text[j].has
         THEN <<StringAt(text, Between(text, i))>> \o FindAllFrom(text, keyword, i + 2)
         ELSE FindAllFrom(text, keyword, i + 1)

\* re.findall of a double quote, text without one that contains keyword (letter
\* case ignored), and a double quote
FindAll(text, keyword) == FindAllFrom(text, keyword, 1)

(* RAGService._parse_fallback_response.  The number pattern captures the   *)
(* digits of the literal without its sign, so float of the capture never   *)
(* fails and the except branch of the function is not reachable.           *)
parse_fallback_response(response) ==
    LET sm == SearchAfter(response, "compliance_status")
        cm == SearchAfter(response, "confidence_score")
        status     == IF sm # 0 THEN response[sm].w ELSE "needs_review"
        confidence == IF cm # 0 THEN QAbs(response[cm].v) ELSE Q(1, 2)
    IN  Compliance("object", status, QMin(confidence, I(1)), "ok",
                   Take(FindAll(response, "clause"), MaxList),
                   Take(FindAll(response, "recommend"), MaxList),
                   Take(FindAll(response, "risk"), MaxList))

\* the mapping analyze_compliance returns from its except branch
ComplianceErrorResult ==
    Compliance("object", "needs_review", I(0), "ok", <<>>,
               << <<"Manual review required due to analysis error">> >>,
               << <<"Analysis system error">> >>)

(* RAGService.analyze_compliance after retrieve_relevant_context, given    *)
(* what the completion call did; for kind "text", tokens is the text.      *)
analyze_compliance(result) ==
    CASE result.kind = "raise" ->
           [analysis |-> ComplianceErrorResult, log |-> {"service_error"}]
      [] result.kind = "text" ->
           [analysis |-> parse_fallback_response(result.tokens),
            log |-> {"json_fallback"}]
      [] result.kind = "json" ->
           [analysis |-> result.value, log |-> {"compliance_analyzed"}]

\* documents.analyze_document from line 46 on, given the service result
document_response(a) ==
    LET status == IF a.compliance_status = "absent" THEN "needs_review"
                  ELSE a.compliance_status
        conf   == GetOr(a.confidence_score, I(0))
        ok     == /\ a.kind = "object"
                  /\ status \in ComplianceStatuses
                  /\ UnitInterval(conf)
                  /\ a.lists # "bad"
    IN  IF ok
        THEN [status |-> 200, success |-> TRUE,
              data |-> [keys |-> {"compliance_status", "confidence_score",
                                  "flagged_clauses", "recommendations", "risk_factors"},
                        value |-> Compliance("object", status, conf, "ok",
                                             a.flagged_clauses, a.recommendations,
                                             a.risk_factors)]]
        ELSE Http(500)

(* Document text: a sequence of characters by class: "q" one of < > " ',   *)
(* "x" another character clean_text removes, "s" white space, "w" any      *)
(* other character.  Texts are far shorter than sanitize_input's limit of  *)
(* 10000 characters.                                                       *)
RECURSIVE Without(_, _)
Without(text, c) ==
    IF text = <<>> THEN <<>>
    ELSE (IF Head(text) = c THEN <<>> ELSE <<Head(text)>>) \o Without(Tail(text), c)

RECURSIVE LStrip(_)
LStrip(text) ==
    IF text # <<>> /\ Head(text) = "s" THEN LStrip(Tail(text)) ELSE text

RECURSIVE RStrip(_)
RStrip(text) ==
    IF text # <<>> /\ text[Len(text)] = "s"
    THEN RStrip(SubSeq(text, 1, Len(text) - 1)) ELSE text

Strip(text) == RStrip(LStrip(text))

RECURSIVE Squeeze(_)
\* every run of white space becomes one space
Squeeze(text) ==
    IF Len(text) < 2 THEN text
    ELSE IF text[1] = "s" /\ text[2] = "s" THEN Squeeze(Tail(text))
    ELSE <<Head(text)>> \o Squeeze(Tail(text))

\* SecurityUtils.sanitize_input
sanitize_input(input_text) == Strip(Without(input_text, "q"))

\* DocumentProcessor.clean_text
clean_text(text) == Strip(Without(Squeeze(text), "x"))

----------------------------------------------------------------------------
(* Inputs *)

MaxRecs == 2
MaxFactors == 1
MaxTokens == 3

SeqsUpTo(S, n) == UNION {[1..m -> S] : m \in 0..n}

Ages == {18, 35, 100}

\* profiles the UserProfile schema accepts
Profiles ==
    [age : Ages,
     annual_income : {I(0), I(75000)},
     risk_tolerance : RiskLevels,
     time_horizon : {20},
     financial_goals : {<<>>, <<"retirement">>},
     current_assets : {I(50000)},
     monthly_expenses : {I(0), I(4000)}]

AllocValues == {Absent, NonNum, I(0), I(40), I(60), Q(119, 2), I(-40)}

ParsedRecs == {Rec("Stocks", a, "moderate") : a \in AllocValues}

ParsedStrategies ==
    {Strategy("object", "list", recs, mst, eft, ok) :
        recs \in SeqsUpTo(ParsedRecs, MaxRecs),
        mst \in {Absent, I(1000)},
        eft \in {Absent, NonNum, I(1000), I(30000), I(60000)},
        ok \in BOOLEAN}
    \cup {Strategy("object", k, <<>>, mst, eft, ok) :
        k \in {"absent", "other"},
        mst \in {Absent, I(1000)},
        eft \in {Absent, NonNum, I(1000), I(30000), I(60000)},
        ok \in BOOLEAN}
    \cup {Strategy(k, "absent", <<>>, Absent, Absent, FALSE) : k \in {"list", "number"}}

Raise == [kind |-> "raise"]
Text(tokens) == [kind |-> "text", tokens |-> tokens]
Json(value) == [kind |-> "json", value |-> value]

StrategyCompletions == {Raise, Text(<<>>)} \cup {Json(v) : v \in ParsedStrategies}

ScoreValues == {Absent, NonNum, I(0), Q(1, 2), I(1), Q(-1, 100), Q(101, 100)}

ParsedFactors == {Factor("Debt", "high", v) : v \in ScoreValues}

ParsedRisks ==
    {Risk("object", score, level, factors, conf, ok) :
        score \in ScoreValues,
        level \in {"absent", "moderate", "high"},
        factors \in SeqsUpTo(ParsedFactors, MaxFactors),
        conf \in ScoreValues,
        ok \in BOOLEAN}
    \cup {Risk("list", Absent, "absent", <<>>, Absent, FALSE)}

\* completion text that is not JSON and mentions risk_level moderate and a
\* confidence_score of 0.8
RiskMentionText ==
    << KwToken("risk_level"), QuotedToken("moderate", TRUE, TRUE, {}),
       KwToken("confidence_score"), NumToken(Q(4, 5)) >>

RiskTexts == {<<>>, RiskMentionText, << KwToken("risk_level") >>}

RiskCompletions ==
    {Raise} \cup {Text(t) : t \in RiskTexts} \cup {Json(v) : v \in ParsedRisks}

RiskRequests ==
    [financial_data : {{}, {"annual_income"}}, scenario_type : {"general", "retirement"}]

Tokens ==
    {KwToken("compliance_status"), KwToken("confidence_score"),
     QuotedToken("compliant", TRUE, TRUE, {}),
     QuotedToken("risk", TRUE, TRUE, {"risk"}),
     NumToken(Q(4, 5)), NumToken(Q(3, 2)), NumToken(Q(-1, 100)),
     NlToken, WordToken(" risk ", {"risk"})}

ParsedCompliances ==
    {Compliance("object", status, conf, lists,
                IF lists = "ok" THEN << <<"clause 1">> >> ELSE <<>>,
                IF lists = "ok" THEN << <<"rec 1">> >> ELSE <<>>,
                IF lists = "ok" THEN << <<"risk 1">> >> ELSE <<>>) :
        status \in ComplianceStatuses \cup {"absent", "partially_compliant"},
        conf \in ScoreValues,
        lists \in {"ok", "absent", "bad"}}
    \cup {Compliance("list", "absent", Absent, "absent", <<>>, <<>>, <<>>)}

ComplianceCompletions ==
    {Raise} \cup {Text(t) : t \in SeqsUpTo(Tokens, MaxTokens)}
    \cup {Json(v) : v \in ParsedCompliances}

DocumentTexts ==
    {<<>>, <<"q">>, <<"s", "q">>, <<"x">>, <<"w">>, <<"w", "q", "w">>,
     <<"s", "w", "s", "s", "w">>}

VectorOutcomes == {"embed_raise", "search_raise", "empty", "hits"}

----------------------------------------------------------------------------
(* The routes *)

None == [kind |-> "none"]

Init ==
    /\ pc = "idle"
    /\ endpoint = "none"
    /\ request = None
    /\ completion = None
    /\ svcResult = None
    /\ reply = None
    /\ log = {}
    /\ llmCalls = 0
    /\ vecCalls = 0
    /\ context = "none"
    /\ index = {}
    /\ stored = <<>>

\* a request arrives: what every route does first.  rejection is the status
\* the route refuses the request with (422 from the request model, 400 from
\* the route's own checks, 500 when the route's except clause turns the
\* refusal into an internal error), or 0 when the request goes on to next
Accept(route, body, rejection, next) ==
    /\ pc = "idle"
    /\ endpoint' = route
    /\ request' = body
    /\ completion' = None
    /\ svcResult' = None
    /\ llmCalls' = 0
    /\ vecCalls' = 0
    /\ context' = "none"
    /\ UNCHANGED <<index, stored>>
    /\ IF rejection # 0
       THEN /\ reply' = Http(rejection)
            /\ pc' = "done"
            /\ log' = IF rejection = 500 THEN {"router_error"} ELSE {}
       ELSE /\ reply' = None
            /\ pc' = next
            /\ log' = {}

\* what POST /generate-strategy does with a body before any completion call:
\* 422 when the StrategyRequest model refuses it, 400 when
\* validate_user_profile reports errors, 0 when it goes on
strategy_rejection(body) ==
    IF ~UserProfileAccepts(body.user_profile) THEN 422
    ELSE IF validate_user_profile(body.user_profile) # {} THEN 400
    ELSE 0

\* POST /generate-strategy, up to the completion call
post_generate_strategy(body) ==
    Accept("generate-strategy", body, strategy_rejection(body), "strategy_chain")

\* the completion call returns or fails; the service and the route finish
strategy_chain_run(result) ==
    /\ pc = "strategy_chain"
    /\ LET out  == agent_generate_financial_strategy(request.user_profile, result)
           resp == strategy_response(out.strategy)
       IN  /\ svcResult' = out.strategy
           /\ reply' = resp.response
           /\ log' = log \cup out.log \cup resp.log
                     \cup (IF endpoint = "quick-strategy" /\ resp.response.status = 500
                           THEN {"quick_error"} ELSE {})
    /\ completion' = result
    /\ llmCalls' = llmCalls + 1
    /\ pc' = "done"
    /\ UNCHANGED <<endpoint, request, vecCalls, context, index, stored>>

\* POST /assess-risk, up to the completion call
post_assess_risk(body) ==
    Accept("assess-risk", body,
           IF body.financial_data = {} THEN 400 ELSE 0, "risk_chain")

risk_chain_run(result) ==
    /\ pc = "risk_chain"
    /\ LET out  == agent_assess_financial_risk(result)
           resp == risk_response(out.assessment)
       IN  /\ svcResult' = out.assessment
           /\ reply' = resp
           /\ log' = log \cup out.log
                     \cup (IF resp.status = 500 THEN {"router_error"} ELSE {})
    /\ completion' = result
    /\ llmCalls' = llmCalls + 1
    /\ pc' = "done"
    /\ UNCHANGED <<endpoint, request, vecCalls, context, index, stored>>

\* POST /analyze-document, up to the vector query
post_analyze_document(body) ==
    Accept("analyze-document", body,
           IF Strip(sanitize_input(body.document_text)) = <<>> THEN 400 ELSE 0,
           "retrieve_context")

\* mutant: a failed embedding or search ends the analysis with an error
retrieve_relevant_context_or_stop(outcome) ==
    /\ pc = "retrieve_context"
    /\ vecCalls' = IF outcome = "embed_raise" THEN vecCalls ELSE vecCalls + 1
    /\ context' = IF outcome = "hits" THEN "text" ELSE ""
    /\ log' = log \cup (CASE outcome = "embed_raise" -> {"retrieve_error"}
                          [] outcome = "search_raise" -> {"search_error"}
                          [] OTHER -> {})
    /\ pc' = IF outcome \in {"embed_raise", "search_raise"} THEN "done"
             ELSE "compliance_chain"
    /\ reply' = IF outcome \in {"embed_raise", "search_raise"} THEN Http(500) ELSE reply
    /\ UNCHANGED <<endpoint, request, completion, svcResult, llmCalls, index, stored>>

\* RAGService.retrieve_relevant_context
retrieve_relevant_context(outcome) ==
    /\ pc = "retrieve_context"
    /\ vecCalls' = IF outcome = "embed_raise" THEN vecCalls ELSE vecCalls + 1
    /\ context' = IF outcome = "hits" THEN "text" ELSE ""
    /\ log' = log \cup (CASE outcome = "embed_raise" -> {"retrieve_error"}
                          [] outcome = "search_raise" -> {"search_error"}
                          [] OTHER -> {})
    /\ pc' = "compliance_chain"
    /\ UNCHANGED <<endpoint, request, completion, svcResult, reply, llmCalls, index, stored>>

compliance_chain_run(result) ==
    /\ pc = "compliance_chain"
    /\ LET out  == analyze_compliance(result)
           resp == document_response(out.analysis)
       IN  /\ svcResult' = out.analysis
           /\ reply' = resp
           /\ log' = log \cup out.log
                     \cup (IF resp.status = 500 THEN {"router_error"} ELSE {})
    /\ completion' = result
    /\ llmCalls' = llmCalls + 1
    /\ pc' = "done"
    /\ UNCHANGED <<endpoint, request, vecCalls, context, index, stored>>

\* the response is sent; the server waits for the next request
next_request ==
    /\ pc = "done"
    /\ pc' = "idle"
    /\ endpoint' = "none"
    /\ request' = None
    /\ completion' = None
    /\ svcResult' = None
    /\ reply' = None
    /\ log' = {}
    /\ llmCalls' = 0
    /\ vecCalls' = 0
    /\ context' = "none"
    /\ UNCHANGED <<index, stored>>

Next ==
    \/ \E p \in Profiles : post_generate_strategy([user_profile |-> p])
    \/ pc = "strategy_chain" /\ \E c \in StrategyCompletions : strategy_chain_run(c)
    \/ \E r \in RiskRequests : post_assess_risk(r)
    \/ pc = "risk_chain" /\ \E c \in RiskCompletions : risk_chain_run(c)
    \/ \E d \in DocumentTexts : post_analyze_document([document_text |-> d])
    \/ \E v \in VectorOutcomes : retrieve_relevant_context(v)
    \/ pc = "compliance_chain" /\ \E c \in ComplianceCompletions : compliance_chain_run(c)
    \/ next_request

Spec == Init /\ [][Next]_vars

----------------------------------------------------------------------------
(* The fallback synthesizer called on its own: _generate_fallback_strategy  *)
(* applied to every profile of its documented domain.                       *)

\* UserProfile values: every age, every tier, income and expenses >= 0,
\* expenses None as well
Experiences == {"beginner", "advanced"}
GoalLists == {<<"retirement">>, <<"house", "education">>}
Horizons == {1, 20}
AssetValues == {I(0), I(50000)}

FallbackProfiles ==
    [age : MinAge..MaxAge,
     annual_income : {I(0), I(75000)},
     investment_experience : Experiences,
     risk_tolerance : RiskLevels,
     financial_goals : GoalLists,
     time_horizon : Horizons,
     current_assets : AssetValues,
     monthly_expenses : {Absent, I(0), I(4000)}]

FallbackInit ==
    /\ pc = "fallback_idle"
    /\ endpoint = "none"
    /\ request = None
    /\ completion = None
    /\ svcResult = None
    /\ reply = None
    /\ log = {}
    /\ llmCalls = 0
    /\ vecCalls = 0
    /\ context = "none"
    /\ index = {}
    /\ stored = <<>>

\* self._generate_fallback_strategy(user_profile) is called and returns
call_fallback(user_profile) ==
    /\ pc = "fallback_idle"
    /\ request' = [user_profile |-> user_profile]
    /\ svcResult' = generate_fallback_strategy(user_profile)
    /\ pc' = "fallback_done"
    /\ UNCHANGED <<endpoint, completion, reply, log, llmCalls, vecCalls, context, index, stored>>

\* the caller takes the result; the service is ready for its next call
fallback_return ==
    /\ pc = "fallback_done"
    /\ pc' = "fallback_idle"
    /\ request' = None
    /\ svcResult' = None
    /\ UNCHANGED <<endpoint, completion, reply, log, llmCalls, vecCalls, context, index, stored>>

FallbackNext ==
    \/ pc = "fallback_idle" /\ \E p \in FallbackProfiles : call_fallback(p)
    \/ fallback_return

FallbackSpec == FallbackInit /\ [][FallbackNext]_vars

----------------------------------------------------------------------------
(* The request surface: what the API does with a request before and around  *)
(* the completion call: the request models, the routes' own checks, the     *)
(* /quick-strategy wrapper and the table of registered routes.              *)

\* the routes the application registers: the decorators of the three routers
\* under the prefix /api/v1 of main.py, and main.py's own two
RegisteredRoutes ==
    {<<"POST", "/api/v1/analyze-document">>,
     <<"POST", "/api/v1/analyze-document-file">>,
     <<"POST", "/api/v1/store-document">>,
     <<"GET", "/api/v1/document-stats">>,
     <<"POST", "/api/v1/generate-strategy">>,
     <<"POST", "/api/v1/quick-strategy">>,
     <<"GET", "/api/v1/strategy-templates">>,
     <<"POST", "/api/v1/optimize-portfolio">>,
     <<"POST", "/api/v1/assess-risk">>,
     <<"POST", "/api/v1/stress-test">>,
     <<"GET", "/api/v1/risk-metrics">>,
     <<"POST", "/api/v1/risk-tolerance-quiz">>,
     <<"GET", "/">>,
     <<"GET", "/health">>}

\* keys of the data a registered GET route of /api/v1 returns; stats_ok tells
\* whether describe_index_stats succeeded (get_index_stats returns {} otherwise)
get_data(path, stats_ok) ==
    CASE path = "/api/v1/strategy-templates" ->
           {"young_aggressive", "mid_career_moderate", "pre_retirement_conservative"}
      [] path = "/api/v1/risk-metrics" ->
           {"overall_risk_score", "market_risk", "credit_risk", "liquidity_risk",
            "inflation_risk", "concentration_risk"}
      [] path = "/api/v1/document-stats" ->
           IF stats_ok THEN {"total_vectors", "dimension", "index_fullness"} ELSE {}

\* a GET request is routed and answered: 404 for a path no route has, 405 for
\* a path registered with another method only
get_route(path, stats_ok) ==
    /\ pc = "idle"
    /\ endpoint' = path
    /\ request' = [method |-> "GET", path |-> path]
    /\ reply' = IF <<"GET", path>> \in RegisteredRoutes
                THEN [status |-> 200, success |-> TRUE,
                      data |-> [keys |-> get_data(path, stats_ok)]]
                ELSE IF \E r \in RegisteredRoutes : r[2] = path
                THEN Http(405)
                ELSE Http(404)
    /\ log' = IF path = "/api/v1/document-stats" /\ ~stats_ok
              THEN {"stats_error"} ELSE {}
    /\ pc' = "done"
    /\ completion' = None
    /\ svcResult' = None
    /\ llmCalls' = 0
    /\ vecCalls' = 0
    /\ context' = "none"
    /\ UNCHANGED <<index, stored>>

\* the UserProfile that generate_quick_strategy builds from its parameters
quick_profile(q) ==
    [age |-> q.age,
     annual_income |-> q.annual_income,
     investment_experience |-> "moderate",
     risk_tolerance |-> q.risk_tolerance,
     financial_goals |-> << q.primary_goal >>,
     time_horizon |-> q.time_horizon,
     current_assets |-> I(0),
     monthly_expenses |-> IF IsNum(q.annual_income)
                          THEN QMul(q.annual_income, Q(7, 120)) ELSE NonNum]

\* POST /quick-strategy, up to the completion call: a ValidationError of
\* UserProfile(...) and the HTTPException(400) of generate_financial_strategy
\* both reach the route's except Exception clause, which answers 500
post_quick_strategy(q) ==
    LET body == [user_profile |-> quick_profile(q)]
    IN  Accept("quick-strategy", body,
               IF strategy_rejection(body) # 0 THEN 500 ELSE 0, "strategy_chain")

\* request bodies as a client can send them, valid or not
RequestProfiles ==
    [age : {17, 18, 100, 101},
     annual_income : {I(-1), I(0), I(75000)},
     risk_tolerance : RiskLevels \cup {"reckless"},
     time_horizon : {0, 1, 20},
     financial_goals : {<<>>, <<"retirement">>},
     current_assets : {I(-1), I(0), I(50000)},
     monthly_expenses : {I(-100), I(0), I(4000)}]

QuickParams ==
    [age : {17, 35},
     annual_income : {I(-1), I(0), I(75000)},
     risk_tolerance : {"moderate", "reckless"},
     time_horizon : {0, 20},
     primary_goal : {"retirement"}]

GetPaths ==
    {"/api/v1/strategy-templates", "/api/v1/risk-metrics", "/api/v1/document-stats",
     "/api/v1/document-types", "/api/v1/store-document"}

\* a few outcomes of the completion call: failure, text that is not JSON, a
\* complete strategy, one with a negative savings target, one without targets
RequestCompletions ==
    {Raise, Text(<<>>),
     Json(Strategy("object", "list",
                   << Rec("Stocks", I(60), "moderate"), Rec("Stocks", I(40), "moderate") >>,
                   I(1000), I(1000), TRUE)),
     Json(Strategy("object", "list",
                   << Rec("Stocks", I(60), "moderate"), Rec("Stocks", I(40), "moderate") >>,
                   I(-500), I(30000), TRUE)),
     Json(Strategy("object", "absent", <<>>, Absent, Absent, FALSE))}

RequestNext ==
    \/ \E p \in RequestProfiles : post_generate_strategy([user_profile |-> p])
    \/ \E q \in QuickParams : post_quick_strategy(q)
    \/ pc = "strategy_chain" /\ \E c \in RequestCompletions : strategy_chain_run(c)
    \/ \E path \in GetPaths, stats_ok \in BOOLEAN : get_route(path, stats_ok)
    \/ next_request

RequestSpec == Init /\ [][RequestNext]_vars

----------------------------------------------------------------------------
(* The document store: RAGService.store_document called on its own, over a  *)
(* vector index that lives across the calls.  A text is named by how it     *)
(* splits; chunk i of text t under document id d is the vector              *)
(* [doc |-> d, chunk |-> i, text |-> t], whose id is d_chunk_i.             *)

BatchSize == 100

MaxStores == 2
LongChunks == 101

StoreIds == {"policy-1", "policy-2"}
StoreTexts == {"empty", "short", "medium", "long"}

\* len(self.text_splitter.split_text(document_text))
ChunkCount(document_text) ==
    CASE document_text = "empty" -> 0
      [] document_text = "short" -> 1
      [] document_text = "medium" -> 2
      [] document_text = "long" -> LongChunks

\* RAGService.process_document: the chunk indexes whose embedding succeeded,
\* in order; a chunk whose embed_query raised is logged and left out
process_document(document_text, embed_failed) ==
    LET Embedded(i) == i \notin embed_failed
    IN  SelectSeq([k \in 1..ChunkCount(document_text) |-> k - 1], Embedded)

\* index.upsert(vectors=batch): a vector replaces the one with the same id
Upsert(idx, batch) ==
    {v \in idx : ~\E b \in batch : b.doc = v.doc /\ b.chunk = v.chunk} \cup batch

NumBatches(n) == (n + BatchSize - 1) \div BatchSize

\* PineconeService.upsert_documents: the batches of batch_size vectors are
\* upserted in order; ok_batches of them succeed, the next one (if any) raises
\* and the method returns False, the batches before it staying written
upsert_documents(idx, documents, ok_batches) ==
    LET written == Min(ok_batches * BatchSize, Len(documents))
    IN  [index |-> Upsert(idx, {documents[k] : k \in 1..written}),
         success |-> ok_batches >= NumBatches(Len(documents))]

\* RAGService.store_document is called and returns
store_document(document_text, document_id, embed_failed, ok_batches) ==
    /\ pc = "store_idle"
    /\ Len(stored) < MaxStores
    /\ embed_failed \subseteq 0..(ChunkCount(document_text) - 1)
    /\ LET processed == process_document(document_text, embed_failed)
           chunks == [k \in 1..Len(processed) |->
                        [doc |-> document_id, chunk |-> processed[k],
                         text |-> document_text]]
           up == upsert_documents(index, chunks, ok_batches)
           success == IF chunks = <<>> THEN FALSE ELSE up.success
       IN  /\ ok_batches <= NumBatches(Len(chunks))
           /\ index' = IF chunks = <<>> THEN index ELSE up.index
           /\ svcResult' = [kind |-> "bool", value |-> success]
           /\ log' = (IF embed_failed # {} THEN {"chunk_error"} ELSE {})
                     \cup (IF chunks = <<>> THEN {"no_chunks"} ELSE {})
                     \cup (IF chunks # <<>> /\ ~success
                           THEN {"upsert_error", "store_error"} ELSE {})
           /\ stored' = Append(stored, [document_id |-> document_id,
                                        document_text |-> document_text,
                                        embed_failed |-> embed_failed,
                                        success |-> success])
    /\ request' = [document_text |-> document_text, document_id |-> document_id]
    /\ pc' = "store_done"
    /\ UNCHANGED <<endpoint, completion, reply, llmCalls, vecCalls, context>>

\* the caller takes the result; the service is ready for its next call
store_return ==
    /\ pc = "store_done"
    /\ pc' = "store_idle"
    /\ request' = None
    /\ svcResult' = None
    /\ log' = {}
    /\ UNCHANGED <<endpoint, completion, reply, llmCalls, vecCalls, context, index, stored>>

StoreInit ==
    /\ pc = "store_idle"
    /\ endpoint = "none"
    /\ request = None
    /\ completion = None
    /\ svcResult = None
    /\ reply = None
    /\ log = {}
    /\ llmCalls = 0
    /\ vecCalls = 0
    /\ context = "none"
    /\ index = {}
    /\ stored = <<>>

StoreNext ==
    \/ pc = "store_idle"
       /\ \E t \in StoreTexts, d \in StoreIds, f \in {{}, {0}},
             k \in 0..NumBatches(LongChunks) :
            store_document(t, d, f, k)
    \/ store_return

StoreSpec == StoreInit /\ [][StoreNext]_vars

----------------------------------------------------------------------------
(* Properties *)

\* the request was served up to its response, the completion call included
Served(route) == pc = "done" /\ endpoint = route /\ llmCalls = 1

Ok200(keys) ==
    /\ reply.status = 200
    /\ reply.success
    /\ keys \subseteq reply.data.keys

\* C1: whatever the completion call did, POST /generate-strategy for a profile
\* that passed validation answers 200, success, with every mandatory Strategy
\* field in data.
C1_StrategyAlways200 ==
    Served("generate-strategy") => Ok200(MandatoryStrategyFields)

\* C2: whatever the completion call did, POST /assess-risk for non-empty
\* financial_data answers 200, success, with the five RiskAssessment fields in data.
C2_RiskAlways200 ==
    Served("assess-risk") =>
        Ok200({"overall_risk_score", "risk_level", "risk_factors",
               "recommendations", "confidence_score"})

\* C3: whatever the completion call did, POST /analyze-document for a text that
\* is non-empty after sanitizing answers 200, success, with a compliance_status
\* among compliant, non_compliant, needs_review.
C3_DocumentAlways200 ==
    Served("analyze-document") =>
        /\ Ok200({"compliance_status"})
        /\ reply.data.value.compliance_status \in ComplianceStatuses

\* C4: each of the three service operations returns a mapping, whatever the
\* completion call and the vector search did.
C4_ServicesReturnMapping ==
    (pc = "done" /\ llmCalls = 1) => svcResult.kind = "object"

\* C5: the allocation percentages of every strategy generate_financial_strategy
\* returns sum to within 1.0 of 100 (validate_allocation_percentages is True).
C5_ReturnedAllocationsSumTo100 ==
    (Served("generate-strategy") /\ FinancialStrategyAccepts(svcResult))
    => validate_allocation_percentages(svcResult.investment_recommendations)

\* _validate_strategy ran on a parsed object whose investment_recommendations
\* is a list of objects
Validated ==
    /\ Served("generate-strategy")
    /\ completion.kind = "json"
    /\ completion.value.kind = "object"
    /\ completion.value.recsKind = "list"

RecsIn == completion.value.investment_recommendations
RecsOut == svcResult.investment_recommendations

AllocIn(i) == RecsIn[i].allocation_percentage
AllocOut(i) == RecsOut[i].allocation_percentage

\* n >= 1 percentages, all of them positive numbers
PositiveIn ==
    /\ Len(RecsIn) >= 1
    /\ \A i \in 1..Len(RecsIn) : IsNum(AllocIn(i)) /\ AllocIn(i).n > 0

\* every output element has the same ratio to its input element
RatioPreserved ==
    /\ Len(RecsOut) = Len(RecsIn)
    /\ \A i \in 1..Len(RecsIn) :
         /\ IsNum(AllocOut(i))
         /\ QMul(AllocOut(i), AllocIn(1)) = QMul(AllocIn(i), AllocOut(1))

Within(x, target, eps) == QLe(QAbs(QSub(x, target)), eps)

\* the percentages sum to within 1.0 of 100
NearTarget(recs) == Within(SumAlloc(recs), I(100), I(1))

Micro == Q(1, 1000000)

\* C6, as the spec states it: for n >= 1 positive percentages the validator's
\* output sums to 100 within 1e-6 and keeps every ratio.
C6_OutputSumsTo100 ==
    (Validated /\ PositiveIn)
    => /\ Within(SumAlloc(RecsOut), I(100), Micro)
       /\ RatioPreserved

\* C6, amended: for n >= 1 positive percentages of total T the validator keeps
\* every ratio; when |T - 100| > 1.0 the output sums to 100 within 1e-6, and
\* when |T - 100| <= 1.0 the output is the input (it sums to T).
C6_RenormalizedOutsideTolerance ==
    (Validated /\ PositiveIn)
    => /\ RatioPreserved
       /\ ~NearTarget(RecsIn) => Within(SumAlloc(RecsOut), I(100), Micro)
       /\ NearTarget(RecsIn) => RecsOut = RecsIn

C6_Witness ==
    /\ Validated
    /\ PositiveIn
    /\ Len(RecsIn) >= 2
    /\ ~NearTarget(RecsIn)
    /\ RecsOut # RecsIn

\* the percentages given to the validator sum to T = 0
ZeroTotal == Validated /\ ~SumRaises(RecsIn) /\ SumAlloc(RecsIn) = I(0)

\* the returned mapping carries a key the parsed mapping did not have
ReturnedDiagnostic == svcResult.other_keys \ completion.value.other_keys # {}

Expenses == request.user_profile.monthly_expenses

FundInBounds(s) ==
    /\ IsNum(s.emergency_fund_target)
    /\ QLe(QMul(Expenses, I(MinEmergencyMonths)), s.emergency_fund_target)
    /\ QLe(s.emergency_fund_target, QMul(Expenses, I(MaxEmergencyMonths)))

\* C8: for every parsed strategy mapping (its emergency_fund_target a number,
\* or missing) and monthly expenses E > 0 the strategy _validate_strategy
\* returns has emergency_fund_target in [3E, 12E], whatever the other fields
\* contain.
C8_EmergencyFundClamped ==
    (Served("generate-strategy") /\ completion.kind = "json"
        /\ completion.value.kind = "object" /\ Expenses.n > 0
        /\ completion.value.emergency_fund_target # NonNum)
    => FundInBounds(svcResult)

\* C9: every score field documented as lying in [0, 1] lies in [0, 1] in the
\* result a service returns.
C9_ScoresInUnitInterval ==
    (pc = "done" /\ llmCalls = 1 /\ svcResult.kind = "object")
    => /\ endpoint = "analyze-document" =>
            (svcResult.confidence_score = Absent
             \/ UnitInterval(svcResult.confidence_score))
       /\ endpoint = "assess-risk" =>
            /\ svcResult.confidence_score = Absent
               \/ UnitInterval(svcResult.confidence_score)
            /\ svcResult.overall_risk_score = Absent
               \/ UnitInterval(svcResult.overall_risk_score)
            /\ \A i \in 1..Len(svcResult.risk_factors) :
                 svcResult.risk_factors[i].impact_score = Absent
                 \/ UnitInterval(svcResult.risk_factors[i].impact_score)

\* the parsed strategy satisfies the validator's invariants
ValidIn ==
    /\ Validated
    /\ ~SumRaises(RecsIn)
    /\ NearTarget(RecsIn)
    /\ FundInBounds(completion.value)

\* C10: a strategy whose percentages sum to within 1.0 of 100 and whose
\* emergency_fund_target lies in [3E, 12E] is returned by _validate_strategy
\* with every field unchanged.
C10_ValidatorIdempotentOnValid ==
    ValidIn => svcResult = completion.value

C10_Witness ==
    /\ ValidIn
    /\ Expenses.n > 0
    /\ SumAlloc(RecsIn) # I(100)

----------------------------------------------------------------------------
(* Properties of the fallback synthesizer (under FallbackSpec) *)

FallbackDone == pc = "fallback_done"

FallbackAge == request.user_profile.age
FallbackTier == request.user_profile.risk_tolerance

StockOut == svcResult.investment_recommendations[1].allocation_percentage
BondOut == svcResult.investment_recommendations[2].allocation_percentage

\* the tier rules for age A, written with comparisons
TierStock(tier, A) ==
    CASE tier = "conservative" -> IF 100 - A >= 30 THEN 100 - A ELSE 30
      [] tier = "aggressive"   -> IF 120 - A <= 90 THEN 120 - A ELSE 90
      [] tier = "moderate"     -> IF 110 - A >= 40 THEN 110 - A ELSE 40

TierBond(tier, A) ==
    CASE tier = "conservative" -> IF A + 20 <= 70 THEN A + 20 ELSE 70
      [] tier = "aggressive"   -> IF A - 20 >= 10 THEN A - 20 ELSE 10
      [] tier = "moderate"     -> IF A + 10 <= 60 THEN A + 10 ELSE 60

ExactStock == Q(TierStock(FallbackTier, FallbackAge) * 100,
                TierStock(FallbackTier, FallbackAge) + TierBond(FallbackTier, FallbackAge))
ExactBond == Q(TierBond(FallbackTier, FallbackAge) * 100,
               TierStock(FallbackTier, FallbackAge) + TierBond(FallbackTier, FallbackAge))

\* x is a number of one decimal nearest to exact
OneDecimalOf(x, exact) ==
    /\ IsNum(x)
    /\ 10 % x.d = 0
    /\ Within(x, exact, Q(1, 20))

\* C11, as the spec states it: for every age and tier the two fallback
\* allocations are exactly s*100/(s+b) and b*100/(s+b).
C11_FallbackAllocationsExact ==
    FallbackDone => (StockOut = ExactStock /\ BondOut = ExactBond)

\* C11, amended: for every age in 18..100 and every tier the two fallback
\* allocations are s*100/(s+b) and b*100/(s+b) rounded to one decimal, with
\* (s, b) given by the tier rules; for age 35 and moderate they are 62.5, 37.5.
C11_FallbackAllocationsRounded ==
    FallbackDone
    => /\ Len(svcResult.investment_recommendations) = 2
       /\ svcResult.investment_recommendations[1].asset_class = "Stocks"
       /\ svcResult.investment_recommendations[2].asset_class = "Bonds"
       /\ OneDecimalOf(StockOut, ExactStock)
       /\ OneDecimalOf(BondOut, ExactBond)
       /\ (FallbackAge = 35 /\ FallbackTier = "moderate")
            => (StockOut = Q(125, 2) /\ BondOut = Q(75, 2))

C11_Witness ==
    /\ FallbackDone
    /\ FallbackAge = 18
    /\ FallbackTier = "conservative"
    /\ StockOut # ExactStock
    /\ StockOut = Q(683, 10)
    /\ BondOut = Q(317, 10)

\* C12: for every age in 18..100, every tier and every non-negative income
\* and expenses the fallback strategy is returned with the sum stock + bond
\* non-zero, all mandatory fields, two allocations each in [0, 100] and
\* allocations summing to exactly 100.
C12_FallbackTotal ==
    FallbackDone
    => /\ TierStock(FallbackTier, FallbackAge) + TierBond(FallbackTier, FallbackAge) > 0
       /\ svcResult.kind = "object"
       /\ svcResult.recsKind = "list"
       /\ svcResult.textOk
       /\ IsNum(svcResult.monthly_savings_target)
       /\ IsNum(svcResult.emergency_fund_target)
       /\ Len(svcResult.investment_recommendations) = 2
       /\ \A i \in 1..2 :
            LET a == svcResult.investment_recommendations[i].allocation_percentage
            IN  IsNum(a) /\ QLe(I(0), a) /\ QLe(a, I(100))
       /\ QAdd(StockOut, BondOut) = I(100)

C12_Witness ==
    /\ FallbackDone
    /\ FallbackAge = 100
    /\ FallbackTier = "conservative"
    /\ request.user_profile.annual_income = I(0)
    /\ request.user_profile.monthly_expenses = I(0)
    /\ StockOut = I(30)
    /\ BondOut = I(70)

\* C13: the fallback monthly_savings_target is 0.15 x annual income / 12; the
\* emergency_fund_target is 6 x monthly expenses when they are known
\* (non-zero) and 6 x 3000 when they are 0 or absent.
C13_FallbackTargets ==
    FallbackDone
    => LET income == request.user_profile.annual_income
           E      == request.user_profile.monthly_expenses
       IN  /\ svcResult.monthly_savings_target = QDiv(QMul(Q(15, 100), income), I(12))
           /\ (IsNum(E) /\ E.n # 0) => svcResult.emergency_fund_target = QMul(I(6), E)
           /\ (E = Absent \/ E = I(0)) => svcResult.emergency_fund_target = I(18000)

C13_Witness ==
    /\ FallbackDone
    /\ request.user_profile.annual_income = I(75000)
    /\ request.user_profile.monthly_expenses = I(0)
    /\ svcResult.monthly_savings_target = Q(1875, 2)
    /\ svcResult.emergency_fund_target = I(18000)

\* the profile with its fields outside (age, tier, income, expenses) replaced
OtherProfile(p, experience, goals, horizon, assets) ==
    [p EXCEPT !.investment_experience = experience, !.financial_goals = goals,
              !.time_horizon = horizon, !.current_assets = assets]

\* C14: the fallback strategy returned, after any earlier calls, is the one
\* every invocation returns for a profile equal in age, risk tolerance, annual
\* income and monthly expenses, whatever its goals, experience, time horizon
\* and current assets.
C14_FallbackDeterministic ==
    FallbackDone
    => \A x \in Experiences, g \in GoalLists, h \in Horizons, a \in AssetValues :
         generate_fallback_strategy(OtherProfile(request.user_profile, x, g, h, a))
         = svcResult

C14_Witness ==
    /\ FallbackDone
    /\ FallbackAge = 35
    /\ FallbackTier = "moderate"
    /\ request.user_profile.annual_income = I(75000)
    /\ request.user_profile.monthly_expenses = I(4000)
    /\ request.user_profile.time_horizon = 1
    /\ svcResult = generate_fallback_strategy(
                      OtherProfile(request.user_profile, "advanced",
                                   <<"retirement">>, 20, I(50000)))

----------------------------------------------------------------------------
(* Properties of the risk assessment fallback (under Spec) *)

\* the assessment of _generate_fallback_risk_assessment, field by field
IsFixedAssessment(r) ==
    /\ r.kind = "object"
    /\ r.overall_risk_score = Q(1, 2)
    /\ r.risk_level = "moderate"
    /\ r.confidence_score = Q(7, 10)
    /\ Len(r.risk_factors) = 1
    /\ r.risk_factors[1].factor_name = "Market Volatility"
    /\ r.risk_factors[1].severity = "medium"
    /\ r.risk_factors[1].impact_score = Q(3, 5)

\* C15: whenever the completion call for a risk assessment fails or returns
\* text that is not JSON, assess_financial_risk returns the fixed assessment
\* (0.5, moderate, 0.7, one factor Market Volatility / medium / 0.6), whatever
\* financial_data and scenario_type are.
C15_RiskFallbackFixed ==
    (Served("assess-risk") /\ completion.kind \in {"raise", "text"})
    => IsFixedAssessment(svcResult)

C15_Witness ==
    /\ Served("assess-risk")
    /\ completion.kind = "raise"
    /\ request.scenario_type = "retirement"
    /\ IsFixedAssessment(svcResult)

\* the completion returned non-JSON text mentioning moderate and 0.8
MentionServed == Served("assess-risk") /\ completion = Text(RiskMentionText)

----------------------------------------------------------------------------
(* Properties of the compliance extractor (under Spec) *)

\* C17: the mapping analyze_compliance returns contains the five required
\* keys on the JSON path, the pattern path and the error path.
C17_ComplianceKeysPresent ==
    Served("analyze-document")
    => /\ svcResult.kind = "object"
       /\ svcResult.compliance_status # "absent"
       /\ svcResult.confidence_score # Absent
       /\ svcResult.lists # "absent"

\* the completion returned text that is not JSON: the pattern path
PatternPath == Served("analyze-document") /\ completion.kind = "text"

RECURSIVE QuotedWith(_, _)
\* the double-quoted strings of the text that contain keyword, in their order
QuotedWith(text, keyword) ==
    IF text = <<>> THEN <<>>
    ELSE (IF Head(text).k = "quoted" /\ Head(text).dq /\ keyword \in Head(text).has
          THEN << <<Head(text).w>> >> ELSE <<>>)
         \o QuotedWith(Tail(text), keyword)

\* the first (at most five) of them
FirstQuotedWith(text, keyword) ==
    SubSeq(QuotedWith(text, keyword), 1,
           IF Len(QuotedWith(text, keyword)) < 5 THEN Len(QuotedWith(text, keyword)) ELSE 5)

\* C18: on the pattern path each list field holds at most 5 entries, every
\* entry is a double-quoted string of the completion containing the field's
\* keyword, and the entries are the first such strings in their order.
C18_ListsAreQuotedStrings ==
    PatternPath
    => /\ svcResult.flagged_clauses = FirstQuotedWith(completion.tokens, "clause")
       /\ svcResult.recommendations = FirstQuotedWith(completion.tokens, "recommend")
       /\ svcResult.risk_factors = FirstQuotedWith(completion.tokens, "risk")

\* what the service returns for the same request when the completion call
\* returns the empty string
EmptyTextResult ==
    CASE endpoint = "generate-strategy" ->
           agent_generate_financial_strategy(request.user_profile, Text(<<>>)).strategy
      [] endpoint = "assess-risk" ->
           agent_assess_financial_risk(Text(<<>>)).assessment
      [] endpoint = "analyze-document" ->
           analyze_compliance(Text(<<>>)).analysis

\* C19: for each of the three targets a completion call that fails yields the
\* result a completion call returning the empty string yields for the same
\* request.
C19_FailureSameAsEmpty ==
    (pc = "done" /\ llmCalls = 1 /\ completion.kind = "raise")
    => svcResult = EmptyTextResult

----------------------------------------------------------------------------
(* Calls of the external services (under Spec) *)

\* the embedding or the similarity search failed while serving the request
VectorFailed == "retrieve_error" \in log \/ "search_error" \in log

\* C20: within one request the completion service is called at most once and
\* the vector similarity service is queried at most once, a failure of either
\* is not followed by another attempt, and after a failed or empty vector
\* search the compliance analysis still makes its one completion call, with
\* an empty context.
C20_SingleAttemptNoRetry ==
    /\ llmCalls <= 1
    /\ vecCalls <= 1
    /\ (pc = "done" /\ completion.kind = "raise") => llmCalls = 1
    /\ VectorFailed => context = ""
    /\ (endpoint = "analyze-document" /\ pc = "compliance_chain") => llmCalls = 0
    /\ (endpoint = "analyze-document" /\ pc = "done" /\ reply.status # 400)
        => (llmCalls = 1 /\ completion.kind \in {"raise", "text", "json"})

C20_Witness ==
    /\ Served("analyze-document")
    /\ "search_error" \in log
    /\ vecCalls = 1
    /\ context = ""
    /\ completion.kind = "json"
    /\ reply.status = 200

----------------------------------------------------------------------------
(* The validator's effect on the recommendations (under Spec) *)

\* every percentage of the returned strategy is the parsed one times one factor
AllScaled ==
    /\ Len(RecsOut) = Len(RecsIn)
    /\ \A i \in 1..Len(RecsIn) : IsNum(AllocIn(i)) /\ IsNum(AllocOut(i))
    /\ \E k \in 1..Len(RecsIn) :
         /\ AllocIn(k).n # 0
         /\ \A i \in 1..Len(RecsIn) :
              QMul(AllocOut(i), AllocIn(k)) = QMul(AllocIn(i), AllocOut(k))

\* C25: in the strategy _validate_strategy returns, either no recommendation's
\* allocation_percentage was changed or every one was multiplied by the same
\* factor, also when the validation fails part-way.
C25_RescaleAllOrNothing ==
    Validated => (RecsOut = RecsIn \/ AllScaled)

----------------------------------------------------------------------------
(* The fallback strategy across the risk tiers (under FallbackSpec) *)

\* Stocks percentage of the fallback strategy for the served profile with its
\* risk_tolerance replaced by tier
StockFor(tier) ==
    generate_fallback_strategy(
        [request.user_profile EXCEPT !.risk_tolerance = tier]
    ).investment_recommendations[1].allocation_percentage

\* C26: for every age in 18..100 the fallback's Stocks percentage is ordered by
\* risk tier: aggressive >= moderate >= conservative.
C26_FallbackStockOrderedByTier ==
    FallbackDone
    => /\ QLe(StockFor("moderate"), StockFor("aggressive"))
       /\ QLe(StockFor("conservative"), StockFor("moderate"))

----------------------------------------------------------------------------
(* The request surface (under RequestSpec) *)

\* POST /generate-strategy refused the body with a validation error
RejectedAsInvalid ==
    pc = "done" /\ llmCalls = 0 /\ reply.status \in {400, 422}

\* the profile the spec calls valid
ProfileValid(p) ==
    /\ p.age >= 18 /\ p.age <= 100
    /\ IsNum(p.annual_income) /\ p.annual_income.n >= 0
    /\ p.risk_tolerance \in {"conservative", "moderate", "aggressive"}
    /\ p.time_horizon >= 1
    /\ Len(p.financial_goals) >= 1
    /\ IsNum(p.current_assets) /\ p.current_assets.n >= 0
    /\ IsNum(p.monthly_expenses) /\ p.monthly_expenses.n >= 0

\* C22: POST /generate-strategy accepts a profile (does not reject it with a
\* validation error) exactly when age is in 18..100, income >= 0, the tier is
\* one of the three, horizon >= 1, goals non-empty, current assets >= 0 and
\* monthly expenses >= 0.
C22_AcceptsExactlyValidProfiles ==
    (endpoint = "generate-strategy" /\ pc \in {"strategy_chain", "done"})
    => (~RejectedAsInvalid <=> ProfileValid(request.user_profile))

\* C23: every strategy generate_financial_strategy returns, for a profile the
\* UserProfile schema accepts and any completion outcome, has
\* monthly_savings_target >= 0 and emergency_fund_target >= 0 (a target the
\* returned mapping does not hold as a number is not counted here).
C23_TargetsNonNegative ==
    (pc = "done" /\ llmCalls = 1 /\ UserProfileAccepts(request.user_profile))
    => /\ IsNum(svcResult.monthly_savings_target)
            => svcResult.monthly_savings_target.n >= 0
       /\ IsNum(svcResult.emergency_fund_target)
            => svcResult.emergency_fund_target.n >= 0

\* C24: the API registers GET /api/v1/document-types, which answers 200 with
\* success true and data containing the document types policy and prospectus.
C24_DocumentTypesRoute ==
    (pc = "done" /\ endpoint = "/api/v1/document-types")
    => /\ <<"GET", "/api/v1/document-types">> \in RegisteredRoutes
       /\ Ok200({"policy", "prospectus"})

\* C30: an input POST /generate-strategy rejects with a 4xx status gets the
\* same status from POST /quick-strategy, and never a 500.
C30_QuickStrategyClientErrors ==
    (pc = "done" /\ endpoint = "quick-strategy" /\ llmCalls = 0
     /\ strategy_rejection(request) \in {400, 422})
    => reply.status = strategy_rejection(request)

----------------------------------------------------------------------------
(* Where a result came from (under Spec) *)

\* the returned mapping holds a key beyond the fields of its schema
OriginFlag(r) == "other_keys" \in DOMAIN r /\ r.other_keys # {}

\* what the fallback synthesizes for the request being served
FallbackResult ==
    IF endpoint = "generate-strategy"
    THEN generate_fallback_strategy(request.user_profile)
    ELSE generate_fallback_risk_assessment

----------------------------------------------------------------------------
(* The document store (under StoreSpec) *)

\* every chunk of text t under document id d
ChunkSet(d, t) ==
    {[doc |-> d, chunk |-> i, text |-> t] : i \in 0..(ChunkCount(t) - 1)}

StoreDone == pc = "store_done"

\* C27: store_document returns True only if every chunk the text splits into
\* has been upserted into the index.
C27_TrueMeansEveryChunkStored ==
    (StoreDone /\ svcResult.value)
    => ChunkSet(request.document_id, request.document_text) \subseteq index

\* C28: when store_document returns False the index is unchanged from before
\* the call.
C28_FailureLeavesIndexUnchanged ==
    [][(pc = "store_idle" /\ pc' = "store_done" /\ ~svcResult'.value)
       => index' = index]_vars

\* every call so far returned True with every chunk embedded
AllStoresSucceeded ==
    \A n \in 1..Len(stored) : stored[n].success /\ stored[n].embed_failed = {}

\* the calls that stored under document id d
StoresOf(d) == {n \in 1..Len(stored) : stored[n].document_id = d}

\* C29: after any sequence of successful store_document calls the chunks the
\* index holds under a document id are exactly the chunks of the text stored
\* last under that id.
C29_IndexHoldsLatestTextOnly ==
    AllStoresSucceeded
    => \A d \in StoreIds :
         {v \in index : v.doc = d}
         = IF StoresOf(d) = {} THEN {}
           ELSE ChunkSet(d, stored[CHOOSE n \in StoresOf(d) :
                                     \A o \in StoresOf(d) : o <= n].document_text)

====
